---- MODULE Spec2Model ----
(***************************************************************************)
(* Model of metaplex/program/src/processor/                                *)
(* validate_fraction_safety_deposit_box.rs: the instruction that validates *)
(* one safety deposit box of a fractionalisation campaign.                 *)
(*                                                                         *)
(* One campaign (Fraction Manager) with its vault of tokenTypeCount boxes. *)
(* Box b (1..tokenTypeCount) holds mint b, described by metadata b, and    *)
(* was added to the vault with order b - 1.                                *)
(***************************************************************************)
EXTENDS Integers, Sequences, FiniteSets, TLC

VARIABLES
    tokenTypeCount,   \* vault.token_type_count (read only here)
    mintOwner,        \* owning program of each box's mint account (read only here)
    itemsValidated,   \* fraction_manager.state.safety_config_items_validated
    status,           \* fraction_manager.state.status
    data,             \* account data by address: config records, lookup records
    updateAuthority,  \* metadata.update_authority of each asset
    lastCall,         \* the arguments of the latest invocation
    lastErr,          \* its result: "Ok" or the error code
    lastWrites,       \* the account writes it performed before it returned
    successes         \* number of successful invocations per box

vars == <<tokenTypeCount, mintOwner, itemsValidated, status, data,
          updateAuthority, lastCall, lastErr, lastWrites, successes>>

\* The part of the state the instruction can write.
ledger == <<itemsValidated, status, data, updateAuthority>>

----------------------------------------------------------------------------
\* Bounds

MaxBoxes == 2

Boxes == 1..MaxBoxes

----------------------------------------------------------------------------
\* Program constants

\* A u64 is kept as four 16-bit limbs, most significant first.
Radix == 65536

U64Max == <<Radix - 1, Radix - 1, Radix - 1, Radix - 1>>
U64Zero == <<0, 0, 0, 0>>

\* The zero extension of a u8 to u64 (`as u64`).
AsU64(x) == <<0, 0, 0, x>>

\* The value of a u64 below Radix, and -1 for the others.
Low(x) == IF x[1] = 0 /\ x[2] = 0 /\ x[3] = 0 THEN x[4] ELSE -1

NumAccounts == 17

PREFIX == "metaplex"

ProgramId == "metaplex_program"
TokenMetadataProgram == "token_metadata_program"
TokenVaultProgram == "token_vault_program"
TokenProgram == "token_program"
OtherProgram == "other_program"

Initialized == "Initialized"
Validated == "Validated"

FractionMasterEditionV2 == "FractionMasterEditionV2"
FractionToken == "FractionToken"
ConfigTypes == {FractionMasterEditionV2, FractionToken}

OriginalAuthorityLookupV1 == "OriginalAuthorityLookupV1"

Ok == "Ok"

----------------------------------------------------------------------------
\* Public keys of the accounts of the campaign

ManagerKey == <<"manager", 1, 0>>
VaultKey == <<"vault", 1, 0>>
ForeignVaultKey == <<"vault", 2, 0>>
StoreKey == <<"store", 1, 0>>
AuthorityKey == <<"wallet", 1, 0>>      \* fraction_manager.authority
OwnerWallet == <<"wallet", 2, 0>>       \* update authority of the assets at the start
StrangerWallet == <<"wallet", 3, 0>>
SystemProgramKey == <<"system", 0, 0>>
CreatorKey == <<"creator", 1, 0>>
PlainEmpty == <<"account", 1, 0>>       \* some empty account that is no derived address
PlainFull == <<"account", 2, 0>>        \* some account that holds data

BoxKey(b) == <<"box", 1, b>>
MintKey(b) == <<"mint", b, 0>>
MetadataKey(b) == <<"metadata", b, 0>>

\* Pubkey::find_program_address: deterministic and injective in the seeds.
find_program_address(seeds, program) == <<"pda", program, seeds>>

EditionKey(b) ==
    find_program_address(<<"metadata", TokenMetadataProgram, MintKey(b), "edition">>,
                         TokenMetadataProgram)

ConfigSeeds(manager_key, box_key) == <<PREFIX, ProgramId, manager_key, box_key>>
ConfigPDA(b) == find_program_address(ConfigSeeds(ManagerKey, BoxKey(b)), ProgramId)

LookupSeeds(vault_key, metadata_key) == <<PREFIX, vault_key, metadata_key>>
LookupPDA(b) == find_program_address(LookupSeeds(VaultKey, MetadataKey(b)), ProgramId)

ConfigAddrs == {ConfigPDA(b) : b \in Boxes}
LookupAddrs == {LookupPDA(b) : b \in Boxes}
Addresses == ConfigAddrs \cup LookupAddrs \cup {PlainEmpty, PlainFull}

Empty == [key |-> "Empty"]
Junk == [key |-> "Junk"]

\* box.order as the vault assigned it (u8)
BoxOrder(b) == b - 1

Other(b, n) == (b % n) + 1

----------------------------------------------------------------------------
\* The accounts and arguments of one invocation.
\*
\* A call names the box it is about, the FractionSafetyDepositConfig argument
\* (order, fraction_winning_config_type) and the ways in which the supplied
\* accounts deviate from the campaign's own, well-formed accounts.

Faults == {
    "FewAccounts",          \* fewer than 17 accounts
    "ManagerData", "BoxData", "MetadataData", "StoreData", "VaultData",
    "MintUninit",           \* the mint account is no initialized Mint
    "VaultAuthority",       \* vault.authority is not the manager
    "ManagerOwner", "MetadataOwner",
    "LookupOther",          \* the lookup slot derived for another box's asset
    "LookupPlain",          \* an empty account that is no derived address
    "LookupPlainFull",      \* an account with data that is no derived address
    "CreatorUninit", "CreatorOwner", "CreatorPublic",
    "StoreOwner", "BoxOwner", "TokenStoreOwner", "EditionOwner", "VaultOwner",
    "TokenMetadataProgram", \* another program in the token metadata program slot
    "Authority",            \* the authority account is not the manager's authority
    "BoxVault",             \* the box belongs to another vault
    "NoValidCreator",
    "ManagerStore",         \* the manager records another store
    "MintKey",              \* the mint of another box
    "TokenStoreUninit",
    "MetadataAuthority",    \* the authorizer is not the asset's update authority
    "MetadataMint",         \* the metadata of another box's asset
    "EditionKey",
    "Amount",               \* the token store does not hold exactly one token
    "ConfigOther",          \* the config slot is an empty account, not the derived one
    "ConfigOfOtherBox"      \* the config slot derived for another box
}

\* Pairs of deviations: a full lookup slot or another config slot together with
\* a second deviation.
DoubleFaults == {
    {"LookupOther", "VaultAuthority"},
    {"LookupOther", "ConfigOther"},
    {"LookupPlainFull", "ManagerOwner"},
    {"LookupPlain", "ConfigOther"}
}

FaultSets == {{}} \cup {{f} : f \in Faults} \cup DoubleFaults

\* The deviations tried together with a config.order that is not the box's order.
OrderFaultSets == {{}, {"VaultAuthority"}, {"MetadataAuthority"}, {"ConfigOther"}}

\* order: the offset of config.order from box.order
Calls ==
    [box : Boxes, type : ConfigTypes, faults : FaultSets, order : {0}]
    \cup [box : Boxes, type : ConfigTypes, faults : OrderFaultSets, order : {1}]

NoCall == [box |-> 0, type |-> FractionToken, faults |-> {}, order |-> 0]

\* The asset whose metadata account the call supplies.
MetadataOf(c, n) == IF "MetadataMint" \in c.faults THEN Other(c.box, n) ELSE c.box

\* The account the call supplies as safety_deposit_config_info.
ConfigKeyOf(c, n) ==
    IF "ConfigOther" \in c.faults THEN PlainEmpty
    ELSE IF "ConfigOfOtherBox" \in c.faults THEN ConfigPDA(Other(c.box, n))
    ELSE ConfigPDA(c.box)

\* The account the call supplies as original_authority_lookup_info.
LookupKeyOf(c, n) ==
    IF "LookupPlain" \in c.faults THEN PlainEmpty
    ELSE IF "LookupPlainFull" \in c.faults THEN PlainFull
    ELSE IF "LookupOther" \in c.faults THEN LookupPDA(Other(c.box, n))
    ELSE LookupPDA(MetadataOf(c, n))

\* The accounts a call supplies, as the instruction reads them.
MakeInput(c, n, owners, auth) ==
    LET b == c.box
        f == c.faults
        o == Other(b, n)
        m == MetadataOf(c, n)
    IN  [ n_accounts |-> IF "FewAccounts" \in f THEN NumAccounts - 1 ELSE NumAccounts,
          config_order |-> AsU64(BoxOrder(b) + c.order),
          config_type |-> c.type,
          config_key |-> ConfigKeyOf(c, n),
          manager_key |-> ManagerKey,
          manager_owner |-> IF "ManagerOwner" \in f THEN OtherProgram ELSE ProgramId,
          manager_data_ok |-> "ManagerData" \notin f,
          manager_authority |-> AuthorityKey,
          manager_vault |-> VaultKey,
          manager_store |-> IF "ManagerStore" \in f THEN <<"store", 2, 0>> ELSE StoreKey,
          box |-> b,
          box_key |-> BoxKey(b),
          box_owner |-> IF "BoxOwner" \in f THEN OtherProgram ELSE TokenVaultProgram,
          box_data_ok |-> "BoxData" \notin f,
          box_vault |-> IF "BoxVault" \in f THEN ForeignVaultKey ELSE VaultKey,
          box_token_mint |-> MintKey(b),
          box_order |-> BoxOrder(b),
          metadata |-> m,
          metadata_key |-> MetadataKey(m),
          metadata_owner |-> IF "MetadataOwner" \in f THEN OtherProgram
                             ELSE TokenMetadataProgram,
          metadata_data_ok |-> "MetadataData" \notin f,
          metadata_mint |-> MintKey(m),
          metadata_update_authority |-> auth[m],
          lookup_key |-> LookupKeyOf(c, n),
          creator_key |-> IF "CreatorPublic" \in f THEN SystemProgramKey ELSE CreatorKey,
          creator_data_is_empty |-> ("CreatorUninit" \in f) \/ ("CreatorPublic" \in f),
          creator_owner |-> IF "CreatorOwner" \in f THEN OtherProgram ELSE ProgramId,
          store_public |-> "CreatorPublic" \in f,
          all_creators_verified |-> "NoValidCreator" \notin f,
          whitelisted_creator_matches |->
              ("NoValidCreator" \notin f) /\ ("CreatorPublic" \notin f),
          store_key |-> StoreKey,
          store_owner |-> IF "StoreOwner" \in f THEN OtherProgram ELSE ProgramId,
          store_data_ok |-> "StoreData" \notin f,
          store_token_metadata_program |-> TokenMetadataProgram,
          store_token_vault_program |-> TokenVaultProgram,
          store_token_program |-> TokenProgram,
          token_store_owner |-> IF "TokenStoreOwner" \in f THEN OtherProgram
                                ELSE TokenProgram,
          token_store_initialized |-> "TokenStoreUninit" \notin f,
          token_store_amount |-> IF "Amount" \in f THEN 0 ELSE 1,
          mint_key |-> IF "MintKey" \in f THEN MintKey(o) ELSE MintKey(b),
          mint_owner |-> IF "MintKey" \in f THEN owners[o] ELSE owners[b],
          mint_initialized |-> "MintUninit" \notin f,
          edition_key |-> IF "EditionKey" \in f THEN PlainFull ELSE EditionKey(m),
          edition_owner |-> IF "EditionOwner" \in f THEN OtherProgram
                            ELSE TokenMetadataProgram,
          vault_key |-> VaultKey,
          vault_owner |-> IF "VaultOwner" \in f THEN OtherProgram ELSE TokenVaultProgram,
          vault_data_ok |-> "VaultData" \notin f,
          vault_authority |-> IF "VaultAuthority" \in f THEN StrangerWallet ELSE ManagerKey,
          vault_token_type_count |-> n,
          authority_key |-> IF "Authority" \in f THEN StrangerWallet ELSE AuthorityKey,
          metadata_authority_key |-> IF "MetadataAuthority" \in f THEN StrangerWallet
                                     ELSE auth[m],
          token_metadata_program_key |-> IF "TokenMetadataProgram" \in f THEN OtherProgram
                                         ELSE TokenMetadataProgram ]

----------------------------------------------------------------------------
\* Helpers of crate::utils, crate::state and mpl_token_metadata::utils

\* `a?; b`: the error of a if it fails, else what follows.
Then(a, b) == IF a # Ok THEN a ELSE b

data_is_empty(d, key) == d[key] = Empty

assert_owned_by(owner, expected) == IF owner = expected THEN Ok ELSE "OwnerMismatch"

assert_initialized(initialized, err) == IF initialized THEN Ok ELSE err

from_account_info(data_ok) == IF data_ok THEN Ok ELSE "InvalidRecordType"

assert_derivation(key, seeds) ==
    IF key = find_program_address(seeds, ProgramId) THEN Ok ELSE "AddressMismatch"

assert_authority_correct(authority, key) ==
    IF authority = key THEN Ok ELSE "AuthorityMismatch"

assert_store_safety_vault_manager_match(i) ==
    IF i.manager_vault = i.vault_key /\ i.box_vault = i.vault_key
    THEN Ok ELSE "VaultManagerMismatch"

assert_at_least_one_fraction_creator_matches_or_store_public_and_all_verified(i) ==
    IF i.whitelisted_creator_matches \/ (i.store_public /\ i.all_creators_verified)
    THEN Ok ELSE "NoValidCreator"

assert_update_authority_is_correct(update_authority, key) ==
    IF update_authority = key THEN Ok ELSE "UpdateAuthorityIncorrect"

\* Allocates the account: zeroed data of the requested size, owned by the program.
create_or_allocate_account_raw(d, key) ==
    [d EXCEPT ![key] = [key |-> "Uninitialized"]]

\* The update-authority change of the token metadata program.
transfer_metadata_ownership(auth, metadata, new_update_authority) ==
    [auth EXCEPT ![metadata] = new_update_authority]

\* A failed instruction leaves no account changed: the unit of execution is atomic.
Commit(r, s0) == IF r.err = Ok THEN r.s ELSE s0

----------------------------------------------------------------------------
\* assert_common_checks, one definition per check, in the order of the code

MintIsInitialized(i) == assert_initialized(i.mint_initialized, "InvalidMint")

VaultAuthorityIsManager(i) ==
    IF i.vault_authority # i.manager_key THEN "VaultAuthorityMismatch" ELSE Ok

ManagerOwned(i) == assert_owned_by(i.manager_owner, ProgramId)

MetadataOwned(i) == assert_owned_by(i.metadata_owner, i.store_token_metadata_program)

\* Mutant: a lookup slot that holds data is accepted.
LookupSlotIsEmptyOff(i, d) == Ok

LookupSlotIsEmpty(i, d) ==
    IF ~data_is_empty(d, i.lookup_key) THEN "AlreadyInitialized" ELSE Ok

WhitelistedCreatorChecks(i) ==
    IF i.creator_key # SystemProgramKey
    THEN IF i.creator_data_is_empty THEN "Uninitialized"
         ELSE assert_owned_by(i.creator_owner, ProgramId)
    ELSE Ok

StoreOwned(i) == assert_owned_by(i.store_owner, ProgramId)

BoxOwned(i) == assert_owned_by(i.box_owner, i.store_token_vault_program)

TokenStoreOwned(i) == assert_owned_by(i.token_store_owner, i.store_token_program)

\* Mutant: the mint's owner is not checked with the other owners.
MintOwnedOff(i) == Ok

MintOwned(i) == assert_owned_by(i.mint_owner, i.store_token_program)

EditionOwned(i) ==
    IF i.config_type # FractionToken
    THEN assert_owned_by(i.edition_owner, i.store_token_metadata_program)
    ELSE Ok

VaultOwned(i) == assert_owned_by(i.vault_owner, i.store_token_vault_program)

TokenMetadataProgramMatches(i) ==
    IF i.token_metadata_program_key # i.store_token_metadata_program
    THEN "FractionManagerTokenMetadataMismatch" ELSE Ok

ManagerStoreMatches(i) ==
    IF i.manager_store # i.store_key THEN "FractionManagerStoreMismatch" ELSE Ok

BoxMintMatches(i) ==
    IF i.mint_key # i.box_token_mint THEN "SafetyDepositBoxMintMismatch" ELSE Ok

TokenMetadataProgramMatchesAgain(i) ==
    IF i.token_metadata_program_key # i.store_token_metadata_program
    THEN "FractionManagerTokenMetadataProgramMismatch" ELSE Ok

MintOwnerIsTokenProgram(i) ==
    IF i.mint_owner # i.store_token_program THEN "TokenProgramMismatch" ELSE Ok

\* Mutant: the manager's authority is checked first of all.
assert_common_checks_reordered(i, d) ==
    Then(assert_authority_correct(i.manager_authority, i.authority_key),
    Then(MintIsInitialized(i),
    Then(VaultAuthorityIsManager(i),
    Then(ManagerOwned(i),
    Then(MetadataOwned(i),
    Then(LookupSlotIsEmpty(i, d),
    Then(WhitelistedCreatorChecks(i),
    Then(StoreOwned(i),
    Then(BoxOwned(i),
    Then(TokenStoreOwned(i),
    Then(MintOwned(i),
    Then(EditionOwned(i),
    Then(VaultOwned(i),
    Then(TokenMetadataProgramMatches(i),
    Then(assert_store_safety_vault_manager_match(i),
    Then(assert_at_least_one_fraction_creator_matches_or_store_public_and_all_verified(i),
    Then(ManagerStoreMatches(i),
    Then(BoxMintMatches(i),
    Then(TokenMetadataProgramMatchesAgain(i),
    MintOwnerIsTokenProgram(i))))))))))))))))))))

assert_common_checks(i, d) ==
    Then(MintIsInitialized(i),
    Then(VaultAuthorityIsManager(i),
    Then(ManagerOwned(i),
    Then(MetadataOwned(i),
    Then(LookupSlotIsEmpty(i, d),
    Then(WhitelistedCreatorChecks(i),
    Then(StoreOwned(i),
    Then(BoxOwned(i),
    Then(TokenStoreOwned(i),
    Then(MintOwned(i),
    Then(EditionOwned(i),
    Then(VaultOwned(i),
    Then(TokenMetadataProgramMatches(i),
    Then(assert_authority_correct(i.manager_authority, i.authority_key),
    Then(assert_store_safety_vault_manager_match(i),
    Then(assert_at_least_one_fraction_creator_matches_or_store_public_and_all_verified(i),
    Then(ManagerStoreMatches(i),
    Then(BoxMintMatches(i),
    Then(TokenMetadataProgramMatchesAgain(i),
    MintOwnerIsTokenProgram(i))))))))))))))))))))

----------------------------------------------------------------------------
\* The result of a step: its error (or Ok), the accounts as the step left them in
\* the running instruction, and the writes performed so far.

Result(err, s, writes) == [err |-> err, s |-> s, writes |-> writes]

\* Mutant: the checker allocates the lookup account once it has seen it empty.
CommonChecksStepAllocates(i, s) ==
    IF Then(MintIsInitialized(i),
       Then(VaultAuthorityIsManager(i),
       Then(ManagerOwned(i),
       Then(MetadataOwned(i),
       LookupSlotIsEmpty(i, s.data))))) = Ok
    THEN Result(assert_common_checks(i, s.data),
                [s EXCEPT !.data = create_or_allocate_account_raw(@, i.lookup_key)],
                <<"allocate_lookup">>)
    ELSE Result(assert_common_checks(i, s.data), s, <<>>)

\* assert_common_checks as a step: it reads the accounts and writes none.
CommonChecksStep(i, s) == Result(assert_common_checks(i, s.data), s, <<>>)

----------------------------------------------------------------------------
\* assert_supply_logic_check

\* Mutant: any authorizer is taken for the asset's update authority.
UpdateAuthorityIsCorrectOff(i) == Ok

UpdateAuthorityIsCorrect(i) ==
    assert_update_authority_is_correct(i.metadata_update_authority,
                                       i.metadata_authority_key)

BoxMetadataMatches(i) ==
    IF i.box_token_mint # i.metadata_mint
    THEN "SafetyDepositBoxMetadataMismatch" ELSE Ok

EditionAddressMatches(i) ==
    LET edition_key ==
            find_program_address(<<"metadata", i.store_token_metadata_program,
                                   i.metadata_mint, "edition">>,
                                 i.store_token_metadata_program)
    IN  IF edition_key # i.edition_key THEN "InvalidEditionAddress" ELSE Ok

StoreHoldsOne(i) == IF i.token_store_amount # 1 THEN "StoreIsEmpty" ELSE Ok

LookupKeyMatches(i) ==
    LET expected_key ==
            find_program_address(LookupSeeds(i.manager_vault, i.metadata_key), ProgramId)
    IN  IF expected_key # i.lookup_key
        THEN "FractionOriginalAuthorityLookupKeyMismatch" ELSE Ok

\* Mutant: the lookup record keeps the new authority instead of the original one.
OriginalAuthorityLookupNew(i) ==
    [key |-> OriginalAuthorityLookupV1, original_authority |-> i.manager_key]

\* The lookup record as serialized into the lookup account.
OriginalAuthorityLookup(i) ==
    [key |-> OriginalAuthorityLookupV1, original_authority |-> i.metadata_authority_key]

\* Mutant: the update authority goes to the manager's authority, not the manager.
NewUpdateAuthorityIsAuthority(i) == i.manager_authority

\* The new update authority handed to transfer_metadata_ownership.
NewUpdateAuthority(i) == i.manager_key

\* The writes of the master edition branch: allocation, transfer, serialization.
MasterEditionWrites(i, s) ==
    LET allocated == create_or_allocate_account_raw(s.data, i.lookup_key)
        auth == transfer_metadata_ownership(s.auth, i.metadata, NewUpdateAuthority(i))
    IN  Result(Ok,
               [s EXCEPT !.data = [allocated EXCEPT ![i.lookup_key] =
                                       OriginalAuthorityLookup(i)],
                         !.auth = auth],
               <<"allocate_lookup", "transfer_metadata_ownership", "serialize_lookup">>)

\* Mutant: the amount of the token store is looked at after the writes.
MasterEditionBranchWritesEarly(i, s) ==
    LET e == Then(UpdateAuthorityIsCorrect(i),
             Then(BoxMetadataMatches(i),
             Then(EditionAddressMatches(i),
             LookupKeyMatches(i))))
        w == MasterEditionWrites(i, s)
    IN  IF e # Ok THEN Result(e, s, <<>>)
        ELSE IF StoreHoldsOne(i) # Ok THEN Result(StoreHoldsOne(i), w.s, w.writes)
        ELSE w

MasterEditionBranch(i, s) ==
    LET e == Then(UpdateAuthorityIsCorrect(i),
             Then(BoxMetadataMatches(i),
             Then(EditionAddressMatches(i),
             Then(StoreHoldsOne(i),
             LookupKeyMatches(i)))))
    IN  IF e # Ok THEN Result(e, s, <<>>) ELSE MasterEditionWrites(i, s)

\* Mutant: the token branch takes custody like the master edition branch.
TokenBranchTransfers(i, s) ==
    IF BoxMetadataMatches(i) # Ok THEN Result(BoxMetadataMatches(i), s, <<>>)
    ELSE MasterEditionWrites(i, s)

TokenBranch(i, s) == Result(BoxMetadataMatches(i), s, <<>>)

assert_supply_logic_check(i, s) ==
    LET e == assert_initialized(i.token_store_initialized, "Uninitialized")
    IN  IF e # Ok THEN Result(e, s, <<>>)
        ELSE IF i.config_type = FractionMasterEditionV2 THEN MasterEditionBranch(i, s)
        ELSE TokenBranch(i, s)

----------------------------------------------------------------------------
\* make_fraction_safety_deposit_config

SafetyDepositConfig(i) ==
    [key |-> "FractionSafetyDepositConfigV1", order |-> i.config_order,
     type |-> i.config_type]

\* Mutant: a config address that is not the derived one ends the call with Ok.
make_config_lenient(i, s, writes) ==
    IF assert_derivation(i.config_key, ConfigSeeds(i.manager_key, i.box_key)) # Ok
    THEN Result(Ok, s, writes)
    ELSE Result(Ok,
                [s EXCEPT !.data = [@ EXCEPT ![i.config_key] = SafetyDepositConfig(i)]],
                writes \o <<"allocate_config", "create_config">>)

\* Mutant: the config address is not verified against the derived one.
make_config_unverified(i, s, writes) ==
    Result(Ok,
           [s EXCEPT !.data = [@ EXCEPT ![i.config_key] = SafetyDepositConfig(i)]],
           writes \o <<"allocate_config", "create_config">>)

make_fraction_safety_deposit_config(i, s, writes) ==
    LET e == assert_derivation(i.config_key, ConfigSeeds(i.manager_key, i.box_key))
        allocated == create_or_allocate_account_raw(s.data, i.config_key)
    IN  IF e # Ok THEN Result(e, s, writes)
        ELSE Result(Ok,
                    [s EXCEPT !.data = [allocated EXCEPT ![i.config_key] =
                                            SafetyDepositConfig(i)]],
                    writes \o <<"allocate_config", "create_config">>)

----------------------------------------------------------------------------
\* process_validate_fraction_safety_deposit_box

EnoughAccounts(i) == IF i.n_accounts < NumAccounts THEN "NotEnoughAccountKeys" ELSE Ok

\* Mutant: no replay guard.
ReplayGuardOff(i, d) == Ok

ReplayGuard(i, d) ==
    IF ~data_is_empty(d, i.config_key) THEN "AlreadyValidated" ELSE Ok

LoadRecords(i) ==
    Then(from_account_info(i.manager_data_ok),
    Then(from_account_info(i.box_data_ok),
    Then(from_account_info(i.metadata_data_ok),
    Then(from_account_info(i.store_data_ok),
    from_account_info(i.vault_data_ok)))))

\* Mutant: the order of the config is not compared with the box's.
OrderMatchesOff(i) == Ok

OrderMatches(i) ==
    IF i.config_order # AsU64(i.box_order)
    THEN "SafetyDepositConfigOrderMismatch" ELSE Ok

\* x + 1 on the limbs, with carry; wraps at U64Max.
RECURSIVE AddOne(_, _)
AddOne(x, k) ==
    IF k = 0 THEN x
    ELSE IF x[k] = Radix - 1 THEN AddOne([x EXCEPT ![k] = 0], k - 1)
    ELSE [x EXCEPT ![k] = @ + 1]

\* Mutant: the increment wraps around (wrapping_add).
wrapping_add_one(x) == [some |-> TRUE, value |-> AddOne(x, Len(x))]

\* Mutant: the counter is stored back without the increment.
checked_add_none(x) == [some |-> TRUE, value |-> x]

\* u64::checked_add(1): None on overflow
checked_add_one(x) ==
    IF x = U64Max THEN [some |-> FALSE, value |-> U64Zero]
    ELSE [some |-> TRUE, value |-> AddOne(x, Len(x))]

\* Mutant: the status is written back as Initialized while the counter differs
\* from the box count.
NextStatusReset(items, token_type_count, old) ==
    IF items = AsU64(token_type_count) THEN Validated ELSE Initialized

\* Mutant: the status turns Validated with the first validated box.
NextStatusEarly(items, token_type_count, old) == Validated

NextStatus(items, token_type_count, old) ==
    IF items = AsU64(token_type_count) THEN Validated ELSE old

\* Mutant: the status is decided on the counter as it was before the increment.
TrackAndWriteStale(i, s, writes) ==
    LET items == checked_add_one(s.items)
    IN  IF ~items.some THEN Result("NumericalOverflowError", s, writes)
        ELSE make_fraction_safety_deposit_config(
                 i,
                 [s EXCEPT !.items = items.value,
                           !.status = NextStatus(s.items,
                                                 i.vault_token_type_count, @)],
                 writes \o <<"save_manager">>)

\* Counter, status, save of the manager and creation of the config record.
TrackAndWrite(i, s, writes) ==
    LET items == checked_add_one(s.items)
    IN  IF ~items.some THEN Result("NumericalOverflowError", s, writes)
        ELSE make_fraction_safety_deposit_config(
                 i,
                 [s EXCEPT !.items = items.value,
                           !.status = NextStatus(items.value,
                                                 i.vault_token_type_count, @)],
                 writes \o <<"save_manager">>)

process_validate_fraction_safety_deposit_box(i, s) ==
    LET e == Then(EnoughAccounts(i),
             Then(ReplayGuard(i, s.data),
             Then(LoadRecords(i),
             assert_common_checks(i, s.data))))
        r == assert_supply_logic_check(i, s)
    IN  IF e # Ok THEN Result(e, s, <<>>)
        ELSE IF r.err # Ok THEN r
        ELSE IF OrderMatches(i) # Ok THEN Result(OrderMatches(i), r.s, r.writes)
        ELSE TrackAndWrite(i, r.s, r.writes)

----------------------------------------------------------------------------
\* The state machine

Ledger == [items |-> itemsValidated, status |-> status, data |-> data,
           auth |-> updateAuthority]

MintOwners(n) ==
    {o \in [Boxes -> {TokenProgram, OtherProgram}] :
        \A b \in Boxes : b # 1 => o[b] = TokenProgram}

Init ==
    /\ tokenTypeCount \in 1..MaxBoxes
    /\ mintOwner \in MintOwners(tokenTypeCount)
    /\ itemsValidated = U64Zero
    /\ status = Initialized
    /\ data = [a \in Addresses |-> IF a = PlainFull THEN Junk ELSE Empty]
    /\ updateAuthority = [b \in Boxes |-> OwnerWallet]
    /\ lastCall = NoCall
    /\ lastErr = "None"
    /\ lastWrites = <<>>
    /\ successes = [b \in Boxes |-> 0]

ValidateSafetyDepositBox ==
    \E c \in Calls :
      /\ c.box <= tokenTypeCount       \* the boxes of the vault
      /\ \E r \in {process_validate_fraction_safety_deposit_box(
                   MakeInput(c, tokenTypeCount, mintOwner, updateAuthority), Ledger)} :
        \E s \in {Commit(r, Ledger)} :
            /\ itemsValidated' = s.items
            /\ status' = s.status
            /\ data' = s.data
            /\ updateAuthority' = s.auth
            /\ lastCall' = c
            /\ lastErr' = r.err
            /\ lastWrites' = r.writes
            /\ successes' = IF r.err = Ok
                            THEN [successes EXCEPT ![c.box] = @ + 1]
                            ELSE successes
            /\ UNCHANGED <<tokenTypeCount, mintOwner>>

Next == ValidateSafetyDepositBox

Spec == Init /\ [][Next]_vars

----------------------------------------------------------------------------
\* The instruction on a manager whose counter is at the end of the u64 range:
\* the same action, started with the counter at 2^64 - 2 or 2^64 - 1.

U64MaxLessOne == <<Radix - 1, Radix - 1, Radix - 1, Radix - 2>>

InitOverflow ==
    /\ tokenTypeCount \in 1..MaxBoxes
    /\ mintOwner = [b \in Boxes |-> TokenProgram]
    /\ itemsValidated \in {U64MaxLessOne, U64Max}
    /\ status = Initialized
    /\ data = [a \in Addresses |-> IF a = PlainFull THEN Junk ELSE Empty]
    /\ updateAuthority = [b \in Boxes |-> OwnerWallet]
    /\ lastCall = NoCall
    /\ lastErr = "None"
    /\ lastWrites = <<>>
    /\ successes = [b \in Boxes |-> 0]

SpecOverflow == InitOverflow /\ [][Next]_vars

----------------------------------------------------------------------------
\* The common checker on its own: assert_common_checks applied once to the
\* accounts of a call, in a state the campaign can be in. Here lastErr is the
\* result of the checker, and the accounts are left as the checker left them.

\* The deviations the common checker looks at.
CommonFaults == {
    "MintUninit", "VaultAuthority", "ManagerOwner", "MetadataOwner",
    "LookupOther", "LookupPlainFull",
    "CreatorUninit", "CreatorOwner", "CreatorPublic",
    "StoreOwner", "BoxOwner", "TokenStoreOwner", "EditionOwner", "VaultOwner",
    "TokenMetadataProgram", "Authority", "BoxVault", "NoValidCreator",
    "ManagerStore", "MintKey" }

\* None, one, two or three deviations at once.
CommonFaultSets ==
    {{}} \cup {{f, g, h} : f \in CommonFaults, g \in CommonFaults, h \in CommonFaults}

CommonCalls == [box : Boxes, type : ConfigTypes, faults : CommonFaultSets, order : {0}]

\* The accounts after the boxes of P have been validated as master editions.
LedgerAfter(P, n) ==
    [items |-> AsU64(Cardinality(P)),
     status |-> IF P = 1..n THEN Validated ELSE Initialized,
     data |-> [a \in Addresses |->
                 IF a = PlainFull THEN Junk
                 ELSE IF \E b \in P : a = ConfigPDA(b)
                 THEN [key |-> "FractionSafetyDepositConfigV1",
                       order |-> AsU64(BoxOrder(CHOOSE b \in P : a = ConfigPDA(b))),
                       type |-> FractionMasterEditionV2]
                 ELSE IF \E b \in P : a = LookupPDA(b)
                 THEN [key |-> OriginalAuthorityLookupV1, original_authority |-> OwnerWallet]
                 ELSE Empty],
     auth |-> [b \in Boxes |-> IF b \in P THEN ManagerKey ELSE OwnerWallet]]

InitCommon ==
    /\ tokenTypeCount \in 1..MaxBoxes
    /\ mintOwner \in MintOwners(tokenTypeCount)
    /\ \E P \in SUBSET (2..tokenTypeCount) :
         \E s \in {LedgerAfter(P, tokenTypeCount)} :
           /\ itemsValidated = s.items
           /\ status = s.status
           /\ data = s.data
           /\ updateAuthority = s.auth
           /\ successes = [b \in Boxes |-> IF b \in P THEN 1 ELSE 0]
    /\ lastCall = NoCall
    /\ lastErr = "None"
    /\ lastWrites = <<>>

CommonChecks ==
    /\ lastCall = NoCall
    /\ \E c \in CommonCalls :
         /\ c.box <= tokenTypeCount
         /\ \E r \in {CommonChecksStep(
                        MakeInput(c, tokenTypeCount, mintOwner, updateAuthority), Ledger)} :
               /\ itemsValidated' = r.s.items
               /\ status' = r.s.status
               /\ data' = r.s.data
               /\ updateAuthority' = r.s.auth
               /\ lastCall' = c
               /\ lastErr' = r.err
               /\ lastWrites' = r.writes
               /\ UNCHANGED <<tokenTypeCount, mintOwner, successes>>

NextCommon == CommonChecks

SpecCommon == InitCommon /\ [][NextCommon]_vars

----------------------------------------------------------------------------
\* Vocabulary of the properties

\* The accounts of the invocation a step performs, read in the state before it.
ThisInput == MakeInput(lastCall', tokenTypeCount, mintOwner, updateAuthority)

Called == lastCall # NoCall

IsConfigRecord(x) == x.key = "FractionSafetyDepositConfigV1"
IsLookupRecord(x) == x.key = OriginalAuthorityLookupV1

ConfigRecords(d) == {a \in Addresses : IsConfigRecord(d[a])}
LookupRecords(d) == {a \in Addresses : IsLookupRecord(d[a])}

\* The boxes of the campaign that have been successfully processed.
Processed == {b \in 1..tokenTypeCount : successes[b] >= 1}

\* The call supplies the box's own config account and all 17 accounts.
OwnConfigSlot(c) ==
    c.faults \cap {"FewAccounts", "ConfigOther", "ConfigOfOtherBox"} = {}

----------------------------------------------------------------------------
\* C1: a call on a box that an earlier call has validated, supplying the box's
\* config account again, fails with AlreadyValidated and changes nothing: the
\* state after it is the state right after the successful call.
C1_ReplayRejected ==
    [][(successes[lastCall'.box] >= 1 /\ OwnConfigSlot(lastCall'))
         => (lastErr' = "AlreadyValidated" /\ UNCHANGED <<ledger, successes>>)]_vars

\* The same call is repeated right after it succeeded, and is rejected.
C1_Witness ==
    /\ Called
    /\ lastCall.faults = {} /\ lastCall.order = 0
    /\ successes[lastCall.box] = 1
    /\ lastErr = "AlreadyValidated"

\* C2: the status is Validated exactly when all tokenTypeCount boxes of the
\* campaign have been successfully processed, in whatever order.
C2_ValidatedIffAllBoxes ==
    (status = Validated) <=> (Cardinality(Processed) = tokenTypeCount)

\* Two boxes, validated in the order 2, 1: the campaign is Validated.
C2_Witness ==
    /\ tokenTypeCount = 2
    /\ status = Validated
    /\ lastErr = Ok /\ lastCall.box = 1
    /\ Processed = {1, 2}

\* C3: the validated-box counter never exceeds the vault's declared box count.
C3_CounterAtMostCount ==
    /\ Low(itemsValidated) >= 0
    /\ Low(itemsValidated) <= tokenTypeCount

\* The counter has reached the box count and a further call has been rejected.
C3_Witness ==
    /\ Low(itemsValidated) = tokenTypeCount
    /\ tokenTypeCount = 2
    /\ Called /\ lastErr # Ok

\* C4: a successful master edition call creates exactly one lookup record, at the
\* address derived from (vault, metadata); the record holds the update authority
\* the asset had before the call, and afterwards the asset's update authority is
\* the manager's address.
C4_MasterEditionCustody ==
    [][(lastErr' = Ok /\ lastCall'.type = FractionMasterEditionV2)
         => LET b == lastCall'.box
            IN  /\ data[LookupPDA(b)] = Empty
                /\ LookupRecords(data') = LookupRecords(data) \cup {LookupPDA(b)}
                /\ \A a \in LookupRecords(data) : data'[a] = data[a]
                /\ IsLookupRecord(data'[LookupPDA(b)])
                /\ data'[LookupPDA(b)].original_authority = updateAuthority[b]
                /\ updateAuthority'[b] = ManagerKey
                /\ \A o \in Boxes \ {b} : updateAuthority'[o] = updateAuthority[o]]_vars

\* A master edition box has been validated: its lookup record names the owner.
C4_Witness ==
    /\ lastErr = Ok /\ lastCall.type = FractionMasterEditionV2
    /\ data[LookupPDA(lastCall.box)].key = OriginalAuthorityLookupV1
    /\ data[LookupPDA(lastCall.box)].original_authority = OwnerWallet
    /\ updateAuthority[lastCall.box] = ManagerKey

\* C5: a successful token call creates no lookup record and leaves every update
\* authority as it was.
C5_TokenNoCustody ==
    [][(lastErr' = Ok /\ lastCall'.type = FractionToken)
         => /\ \A a \in Addresses \ {ConfigPDA(lastCall'.box)} : data'[a] = data[a]
            /\ LookupRecords(data') = LookupRecords(data)
            /\ updateAuthority' = updateAuthority]_vars

\* A box has been validated as a token box: no lookup record, the owner kept.
C5_Witness ==
    /\ lastErr = Ok /\ lastCall.type = FractionToken
    /\ data[LookupPDA(lastCall.box)] = Empty
    /\ updateAuthority[lastCall.box] = OwnerWallet

\* The checks that come before the comparison of the orders all pass.
OrderCheckReached(i) ==
    /\ Then(EnoughAccounts(i),
       Then(ReplayGuard(i, data),
       Then(LoadRecords(i),
       assert_common_checks(i, data)))) = Ok
    /\ assert_supply_logic_check(i, Ledger).err = Ok

\* C6 as stated: a call whose config.order differs from the box's order fails
\* with SafetyDepositConfigOrderMismatch and writes nothing.
C6_Original ==
    [][lastCall'.order # 0
         => (lastErr' = "SafetyDepositConfigOrderMismatch" /\ UNCHANGED ledger)]_vars

\* C6, amended: a call whose config.order differs from the box's order fails and
\* writes nothing, for both variants; its error is
\* SafetyDepositConfigOrderMismatch whenever the checks that precede the order
\* comparison pass.
C6_OrderMismatchFails ==
    [][lastCall'.order # 0
         => /\ lastErr' # Ok
            /\ UNCHANGED <<ledger, successes>>
            /\ \A i \in {ThisInput} :
                 OrderCheckReached(i) => lastErr' = "SafetyDepositConfigOrderMismatch"]_vars

\* A master edition call with a wrong order: the lookup record was written and
\* the authority transferred inside the call, the call failed, nothing is left.
C6_Witness ==
    /\ Called /\ lastCall.order # 0
    /\ lastCall.type = FractionMasterEditionV2
    /\ lastErr = "SafetyDepositConfigOrderMismatch"
    /\ Len(lastWrites) = 3
    /\ data[LookupPDA(lastCall.box)] = Empty
    /\ updateAuthority[lastCall.box] = OwnerWallet

ErrorCodes == {
    "NotEnoughAccountKeys", "AlreadyValidated", "InvalidRecordType", "InvalidMint",
    "VaultAuthorityMismatch", "OwnerMismatch", "AlreadyInitialized", "Uninitialized",
    "FractionManagerTokenMetadataMismatch", "AuthorityMismatch", "VaultManagerMismatch",
    "NoValidCreator", "FractionManagerStoreMismatch", "SafetyDepositBoxMintMismatch",
    "FractionManagerTokenMetadataProgramMismatch", "TokenProgramMismatch",
    "UpdateAuthorityIncorrect", "SafetyDepositBoxMetadataMismatch",
    "InvalidEditionAddress", "StoreIsEmpty",
    "FractionOriginalAuthorityLookupKeyMismatch", "SafetyDepositConfigOrderMismatch",
    "NumericalOverflowError", "AddressMismatch" }

\* Every effect of a successful call on box c.box is there, and nothing else.
FullSuccess(c) ==
    LET b == c.box
        touched == IF c.type = FractionMasterEditionV2
                   THEN {ConfigPDA(b), LookupPDA(b)} ELSE {ConfigPDA(b)}
    IN  /\ data[ConfigPDA(b)] = Empty
        /\ data'[ConfigPDA(b)] =
               [key |-> "FractionSafetyDepositConfigV1",
                order |-> AsU64(BoxOrder(b)), type |-> c.type]
        /\ Low(itemsValidated') = Low(itemsValidated) + 1
        /\ status' = IF Low(itemsValidated') = tokenTypeCount THEN Validated ELSE status
        /\ \A a \in Addresses \ touched : data'[a] = data[a]
        /\ IF c.type = FractionMasterEditionV2
           THEN /\ data[LookupPDA(b)] = Empty
                /\ IsLookupRecord(data'[LookupPDA(b)])
                /\ updateAuthority' = [updateAuthority EXCEPT ![b] = ManagerKey]
           ELSE updateAuthority' = updateAuthority

\* C7: an invocation either succeeds with all its effects or fails with one
\* error code and no change of state.
C7_AllOrNothing ==
    [][IF lastErr' = Ok THEN FullSuccess(lastCall')
       ELSE lastErr' \in ErrorCodes /\ UNCHANGED <<ledger, successes>>]_vars

\* A call that got as far as saving the manager failed: nothing of it is visible.
C7_Witness ==
    /\ Called
    /\ lastErr = "AddressMismatch"
    /\ "save_manager" \in {lastWrites[k] : k \in 1..Len(lastWrites)}
    /\ itemsValidated = U64Zero
    /\ ConfigRecords(data) = {}

\* The latest call is well-formed but for the owner of the box's mint.
C8_OnlyMintOwnerWrong ==
    /\ Called
    /\ lastCall.faults = {} /\ lastCall.order = 0
    /\ mintOwner[lastCall.box] # TokenProgram

\* C8 as stated: such a call fails with TokenProgramMismatch.
C8_Original == C8_OnlyMintOwnerWrong => lastErr = "TokenProgramMismatch"

\* C8, amended: when the mint's owner is not the store's token program and
\* every other input is valid, the call fails with the owner-mismatch error of
\* the ownership checks (step 5), before any write.
C8_MintOwnerRejected ==
    C8_OnlyMintOwnerWrong
      => /\ lastErr = "OwnerMismatch"
         /\ lastWrites = <<>>
         /\ successes[lastCall.box] = 0
         /\ data[ConfigPDA(lastCall.box)] = Empty

\* Such a call has been made on a master edition box.
C8_Witness ==
    /\ C8_OnlyMintOwnerWrong
    /\ lastCall.type = FractionMasterEditionV2
    /\ lastErr = "OwnerMismatch"

\* C9: at most one call succeeds per box, whatever config address is supplied;
\* config records exist only at the derived addresses of the processed boxes,
\* and a config record is never modified or deleted.
C9_ConfigOnce ==
    [][/\ lastErr' = Ok => successes[lastCall'.box] = 0
       /\ \A a \in Addresses : IsConfigRecord(data[a]) => data'[a] = data[a]
       /\ ConfigRecords(data') = {ConfigPDA(b) : b \in Processed'}
       /\ \A b \in Boxes : successes'[b] <= 1]_vars

\* A validated box is submitted again with another, empty config account: the
\* call runs up to the derivation of the config address and fails there.
C9_Witness ==
    /\ Called
    /\ "ConfigOther" \in lastCall.faults
    /\ successes[lastCall.box] = 1
    /\ lastErr = "AddressMismatch"
    /\ data[PlainEmpty] = Empty
    /\ Cardinality(ConfigRecords(data)) = Cardinality(Processed)

\* The checks that come before the check of the lookup slot all pass.
LookupCheckReached(i) ==
    Then(EnoughAccounts(i),
    Then(ReplayGuard(i, data),
    Then(LoadRecords(i),
    Then(MintIsInitialized(i),
    Then(VaultAuthorityIsManager(i),
    Then(ManagerOwned(i),
    MetadataOwned(i))))))) = Ok

\* C10 as stated: a call whose lookup slot holds data, its config slot being
\* empty, is rejected with AlreadyInitialized.
C10_Original ==
    (/\ Called
     /\ ~data_is_empty(data, LookupKeyOf(lastCall, tokenTypeCount))
     /\ data_is_empty(data, ConfigKeyOf(lastCall, tokenTypeCount)))
      => lastErr = "AlreadyInitialized"

\* C10, amended: a call whose lookup slot holds data is rejected; its error is
\* AlreadyInitialized whenever the checks that precede the lookup-slot check
\* pass (all accounts present, empty config slot, records load, initialized
\* mint, vault authority, owners of manager and metadata). A lookup record is
\* created only in an empty slot and is never overwritten.
C10_LookupOnce ==
    [][/\ ~data_is_empty(data, LookupKeyOf(lastCall', tokenTypeCount))
            => /\ lastErr' # Ok
               /\ \A i \in {ThisInput} :
                    LookupCheckReached(i) => lastErr' = "AlreadyInitialized"
       /\ \A a \in Addresses :
            /\ IsLookupRecord(data[a]) => data'[a] = data[a]
            /\ IsLookupRecord(data'[a]) => (data[a] = Empty \/ data'[a] = data[a])]_vars

\* A box is submitted with the lookup record of another, validated asset, its
\* own config slot being empty: AlreadyInitialized, the record untouched.
C10_Witness ==
    /\ Called
    /\ lastErr = "AlreadyInitialized"
    /\ IsLookupRecord(data[LookupKeyOf(lastCall, tokenTypeCount)])
    /\ data[LookupKeyOf(lastCall, tokenTypeCount)].original_authority = OwnerWallet
    /\ data_is_empty(data, ConfigKeyOf(lastCall, tokenTypeCount))

\* What the accounts of box b hold when the box has (done) or has not been
\* validated, whatever calls came before and after: the config record with the
\* box's order and the variant it was validated as, for a master edition the
\* lookup record naming the original owner and the manager as update authority.
BoxFinal(b, d, auth, done) ==
    IF done
    THEN /\ IsConfigRecord(d[ConfigPDA(b)])
         /\ d[ConfigPDA(b)].order = AsU64(BoxOrder(b))
         /\ IF d[ConfigPDA(b)].type = FractionMasterEditionV2
            THEN /\ d[LookupPDA(b)] = [key |-> OriginalAuthorityLookupV1,
                                        original_authority |-> OwnerWallet]
                 /\ auth[b] = ManagerKey
            ELSE /\ d[ConfigPDA(b)].type = FractionToken
                 /\ d[LookupPDA(b)] = Empty
                 /\ auth[b] = OwnerWallet
    ELSE /\ d[ConfigPDA(b)] = Empty
         /\ d[LookupPDA(b)] = Empty
         /\ auth[b] = OwnerWallet

FinalStatus(P, n) == IF P = 1..n THEN Validated ELSE Initialized

\* C11: the state is a function of the set of validated boxes (and the variant
\* of each), not of the order of the calls: counter = number of validated boxes,
\* status Validated exactly when all declared boxes are validated, the config
\* and lookup records and the authorities those of the validated boxes; and the
\* status turns Validated in the call that validates the last missing box.
C11_OrderIndependent ==
    /\ [](/\ itemsValidated = AsU64(Cardinality(Processed))
          /\ status = FinalStatus(Processed, tokenTypeCount)
          /\ \A b \in Boxes : BoxFinal(b, data, updateAuthority, b \in Processed)
          /\ data[PlainEmpty] = Empty /\ data[PlainFull] = Junk)
    /\ [][(status = Initialized /\ status' = Validated)
            => /\ lastErr' = Ok
               /\ Processed' = 1..tokenTypeCount
               /\ Processed = (1..tokenTypeCount) \ {lastCall'.box}
               /\ lastCall'.box \notin Processed]_vars

\* Two boxes validated in the order 2, 1, box 2 as a master edition and box 1 as
\* a token: the status has turned Validated with the call on box 1.
C11_Witness ==
    /\ tokenTypeCount = 2
    /\ lastErr = Ok /\ lastCall.box = 1 /\ lastCall.type = FractionToken
    /\ Processed = {1, 2}
    /\ IsLookupRecord(data[LookupPDA(2)])
    /\ itemsValidated = AsU64(2)
    /\ status = Validated

\* The same two validations in the order 1, 2: the same final state.
C11_WitnessOtherOrder ==
    /\ tokenTypeCount = 2
    /\ lastErr = Ok /\ lastCall.box = 2 /\ lastCall.type = FractionMasterEditionV2
    /\ Processed = {1, 2}
    /\ data[ConfigPDA(1)].type = FractionToken
    /\ itemsValidated = AsU64(2)
    /\ status = Validated

\* C12: once the status is Validated it stays Validated: no call, successful or
\* failed, sets it back to Initialized, neither in the state it leaves nor in
\* the manager record as the call itself last held it before it returned.
C12_StatusOneWay ==
    [][status = Validated
         => /\ status' = Validated
            /\ \A r \in {process_validate_fraction_safety_deposit_box(ThisInput, Ledger)} :
                 r.s.status = Validated]_vars

\* The campaign is Validated and a later call, on a validated box with another
\* empty config account, got as far as saving the manager and then failed.
C12_Witness ==
    /\ status = Validated
    /\ tokenTypeCount = 2
    /\ itemsValidated = AsU64(2)
    /\ Called /\ lastErr = "AddressMismatch"
    /\ lastWrites[Len(lastWrites)] = "save_manager"

\* C13: a successful call adds exactly 1 to the counter and a failed call leaves
\* it as it was, so that the counter, which starts at 0, is always the number of
\* config records of the campaign; with 2 declared boxes the counter is 1 and
\* the status Initialized after the first box (master edition), and the counter
\* is 2 and the status Validated after the second (token).
C13_CounterCountsConfigs ==
    [][/\ IF lastErr' = Ok
          THEN Low(itemsValidated') = Low(itemsValidated) + 1
          ELSE itemsValidated' = itemsValidated
       /\ Low(itemsValidated') = Cardinality(ConfigRecords(data'))
       /\ (tokenTypeCount = 2 /\ lastErr' = Ok)
            => IF Processed = {}
               THEN Low(itemsValidated') = 1 /\ status' = Initialized
               ELSE Low(itemsValidated') = 2 /\ status' = Validated]_vars

\* The scenario: of two boxes the first was validated as a master edition, and
\* the token box has just been validated: counter 2, status Validated.
C13_Witness ==
    /\ tokenTypeCount = 2
    /\ lastErr = Ok /\ lastCall.type = FractionToken /\ lastCall.box = 2
    /\ IsConfigRecord(data[ConfigPDA(1)])
    /\ data[ConfigPDA(1)].type = FractionMasterEditionV2
    /\ Cardinality(ConfigRecords(data)) = 2
    /\ Low(itemsValidated) = 2
    /\ status = Validated

\* The writes of the master edition branch, in the order of the code.
BranchWrites == <<"allocate_lookup", "transfer_metadata_ownership", "serialize_lookup">>

\* The writes a call performed, as a set.
Written(writes) == {writes[k] : k \in 1..Len(writes)}

\* C14 as stated: once a write of the master edition branch has been performed,
\* no check of the operation fails any more.
C14_Original ==
    (Written(lastWrites) \cap Written(BranchWrites) # {}) => lastErr = Ok

\* The failures that come after the supply-logic checker has returned.
LateErrors ==
    {"SafetyDepositConfigOrderMismatch", "NumericalOverflowError", "AddressMismatch"}

\* C14, amended: the writes of the master edition branch are performed, all
\* three and in this order, only after every check of the common checker and of
\* the branch itself has passed; the checks that follow the branch (order of the
\* config, overflow of the counter, derivation of the config address) can still
\* fail after them, and then nothing of the writes is kept.
C14_WritesAfterBranchChecks ==
    [][(Written(lastWrites') \cap Written(BranchWrites) # {})
         => /\ lastCall'.type = FractionMasterEditionV2
            /\ SubSeq(lastWrites', 1, 3) = BranchWrites
            /\ \A i \in {ThisInput} : OrderCheckReached(i)
            /\ lastErr' \in {Ok} \cup LateErrors
            /\ lastErr' # Ok => UNCHANGED <<ledger, successes>>]_vars

\* A master edition call with an empty config account that is not the derived
\* one: lookup written, authority transferred, manager saved, then the
\* derivation failed; the lookup slot is empty and the owner kept.
C14_Witness ==
    /\ Called /\ lastCall.type = FractionMasterEditionV2
    /\ lastErr = "AddressMismatch"
    /\ lastWrites = BranchWrites \o <<"save_manager">>
    /\ data[LookupPDA(lastCall.box)] = Empty
    /\ updateAuthority[lastCall.box] = OwnerWallet

\* The call supplies a config account that is not the one derived for its box.
ForeignConfigSlot(c) == ConfigKeyOf(c, tokenTypeCount) # ConfigPDA(c.box)

\* The checks that come before the creation of the config record all pass.
ConfigCheckReached(i) ==
    /\ OrderCheckReached(i)
    /\ OrderMatches(i) = Ok
    /\ checked_add_one(itemsValidated).some

\* C15 as stated: a call whose config address is not the derived one fails with
\* the derivation error.
C15_Original ==
    (Called /\ ForeignConfigSlot(lastCall)) => lastErr = "AddressMismatch"

\* C15, amended: a call whose config address is not the one derived from
\* (manager, box) fails and leaves counter, status and every record unchanged;
\* when all the checks before the creation of the config record pass, it fails
\* with the derivation error, after the manager record has been saved.
C15_ConfigAddressVerified ==
    [][ForeignConfigSlot(lastCall')
         => /\ lastErr' # Ok
            /\ UNCHANGED <<ledger, successes>>
            /\ \A i \in {ThisInput} :
                 ConfigCheckReached(i)
                   => /\ lastErr' = "AddressMismatch"
                      /\ lastWrites'[Len(lastWrites')] = "save_manager"]_vars

\* After one box was validated, a token call on the other box supplies an empty
\* account that is not the derived one: the manager was saved with counter 2,
\* the derivation failed, and the counter is 1 and the status Initialized.
C15_Witness ==
    /\ tokenTypeCount = 2
    /\ Called /\ lastCall.type = FractionToken
    /\ "ConfigOther" \in lastCall.faults
    /\ lastCall.box \notin Processed
    /\ lastErr = "AddressMismatch"
    /\ lastWrites = <<"save_manager">>
    /\ Low(itemsValidated) = 1 /\ status = Initialized
    /\ data[PlainEmpty] = Empty

\* The checks that come before the check of the authorizer all pass.
AuthorizerCheckReached(i) ==
    /\ Then(EnoughAccounts(i),
       Then(ReplayGuard(i, data),
       Then(LoadRecords(i),
       assert_common_checks(i, data)))) = Ok
    /\ assert_initialized(i.token_store_initialized, "Uninitialized") = Ok

\* C16 as stated: an update authority changes only in a master edition call
\* whose authorizer is the asset's update authority, and a master edition call
\* with another authorizer fails with UpdateAuthorityIncorrect.
C16_Original ==
    [][\A i \in {ThisInput} :
         /\ updateAuthority' # updateAuthority
              => /\ lastCall'.type = FractionMasterEditionV2
                 /\ i.metadata_authority_key = i.metadata_update_authority
         /\ (/\ lastCall'.type = FractionMasterEditionV2
             /\ i.metadata_authority_key # i.metadata_update_authority)
              => /\ lastErr' = "UpdateAuthorityIncorrect"
                 /\ updateAuthority' = updateAuthority]_vars

\* C16, amended: an update authority changes only in a successful master
\* edition call whose authorizer is the asset's current update authority, and
\* then only that asset's; a master edition call with another authorizer fails
\* and transfers nothing, with UpdateAuthorityIncorrect whenever the checks that
\* precede the check of the authorizer pass.
C16_AuthorizedTransferOnly ==
    [][\A i \in {ThisInput} :
         /\ updateAuthority' # updateAuthority
              => /\ lastCall'.type = FractionMasterEditionV2
                 /\ lastErr' = Ok
                 /\ i.metadata_authority_key = updateAuthority[i.metadata]
                 /\ updateAuthority' =
                        [updateAuthority EXCEPT ![i.metadata] = ManagerKey]
         /\ (/\ lastCall'.type = FractionMasterEditionV2
             /\ i.metadata_authority_key # updateAuthority[i.metadata])
              => /\ lastErr' # Ok
                 /\ updateAuthority' = updateAuthority
                 /\ AuthorizerCheckReached(i)
                      => (lastErr' = "UpdateAuthorityIncorrect" /\ lastWrites' = <<>>)]_vars

\* A master edition call whose authorizer is a stranger, on a box that is not
\* validated: UpdateAuthorityIncorrect, the owner is still the update authority.
C16_Witness ==
    /\ Called /\ lastCall.type = FractionMasterEditionV2
    /\ "MetadataAuthority" \in lastCall.faults
    /\ lastErr = "UpdateAuthorityIncorrect"
    /\ lastWrites = <<>>
    /\ updateAuthority[lastCall.box] = OwnerWallet
    /\ data[LookupPDA(lastCall.box)] = Empty

\* The accounts of the latest invocation, read in the current state.
LastInput == MakeInput(lastCall, tokenTypeCount, mintOwner, updateAuthority)

\* The steps of the list of the Common Invariant Checker, 1 to 15.
CheckerSteps == 1..15

\* Whether the accounts i, with the account data d, violate step k of the list.
StepViolated(k, i, d) ==
    CASE k = 1 -> ~i.mint_initialized
      [] k = 2 -> i.vault_authority # i.manager_key
      [] k = 3 -> \/ i.manager_owner # ProgramId
                  \/ i.metadata_owner # i.store_token_metadata_program
                  \/ d[i.lookup_key] # Empty
      [] k = 4 -> /\ i.creator_key # SystemProgramKey
                  /\ (i.creator_data_is_empty \/ i.creator_owner # ProgramId)
      [] k = 5 -> \/ i.store_owner # ProgramId
                  \/ i.box_owner # i.store_token_vault_program
                  \/ i.token_store_owner # i.store_token_program
                  \/ i.mint_owner # i.store_token_program
      [] k = 6 -> /\ i.config_type # FractionToken
                  /\ i.edition_owner # i.store_token_metadata_program
      [] k = 7 -> i.vault_owner # i.store_token_vault_program
      [] k = 8 -> i.token_metadata_program_key # i.store_token_metadata_program
      [] k = 9 -> i.manager_authority # i.authority_key
      [] k = 10 -> i.manager_vault # i.vault_key \/ i.box_vault # i.vault_key
      [] k = 11 -> ~(\/ i.whitelisted_creator_matches
                     \/ (i.store_public /\ i.all_creators_verified))
      [] k = 12 -> i.manager_store # i.store_key
      [] k = 13 -> i.mint_key # i.box_token_mint
      [] k = 14 -> i.token_metadata_program_key # i.store_token_metadata_program
      [] k = 15 -> i.mint_owner # i.store_token_program

\* The error of step k of the list, for accounts that violate it.
StepError(k, i, d) ==
    CASE k = 1 -> "InvalidMint"
      [] k = 2 -> "VaultAuthorityMismatch"
      [] k = 3 -> IF \/ i.manager_owner # ProgramId
                     \/ i.metadata_owner # i.store_token_metadata_program
                  THEN "OwnerMismatch" ELSE "AlreadyInitialized"
      [] k = 4 -> IF i.creator_data_is_empty THEN "Uninitialized" ELSE "OwnerMismatch"
      [] k \in {5, 6, 7} -> "OwnerMismatch"
      [] k = 8 -> "FractionManagerTokenMetadataMismatch"
      [] k = 9 -> "AuthorityMismatch"
      [] k = 10 -> "VaultManagerMismatch"
      [] k = 11 -> "NoValidCreator"
      [] k = 12 -> "FractionManagerStoreMismatch"
      [] k = 13 -> "SafetyDepositBoxMintMismatch"
      [] k = 14 -> "FractionManagerTokenMetadataProgramMismatch"
      [] k = 15 -> "TokenProgramMismatch"

ViolatedSteps(i, d) == {k \in CheckerSteps : StepViolated(k, i, d)}

EarliestStep(V) == CHOOSE k \in V : \A j \in V : k <= j

\* C17: the common checker fails fast in the order of the list: it accepts the
\* accounts that violate no step, and for the others its error is the error of
\* the earliest step they violate, whatever later steps they violate as well.
C17_FailsFastInOrder ==
    Called
      => \A i \in {LastInput} :
           \A V \in {ViolatedSteps(i, data)} :
             IF V = {} THEN lastErr = Ok
             ELSE lastErr = StepError(EarliestStep(V), i, data)

\* The vault's authority is not the manager and the authority account is not
\* the manager's authority: the error is that of step 2, not of step 9.
C17_Witness ==
    /\ Called
    /\ lastCall.faults = {"VaultAuthority", "Authority"}
    /\ ViolatedSteps(LastInput, data) = {2, 9}
    /\ lastErr = "VaultAuthorityMismatch"

\* Another program in the token metadata program slot, and the mint of another
\* box: the error is that of step 8, not of step 13 or 14.
C17_WitnessStep8 ==
    /\ Called
    /\ lastCall.faults = {"TokenMetadataProgram", "MintKey"}
    /\ ViolatedSteps(LastInput, data) = {8, 13, 14}
    /\ lastErr = "FractionManagerTokenMetadataMismatch"

\* C18: the common checker changes no record, whether it accepts or rejects:
\* counter, status, config and lookup records and update authorities are after
\* it what they were before it, and it has performed no write.
C18_CheckerIsPure ==
    [][UNCHANGED <<ledger, successes>> /\ lastWrites' = <<>>]_vars

\* The checker has accepted the accounts of box 1 while box 2 is validated: the
\* records of box 2 are there, the slots of box 1 are still empty.
C18_Witness ==
    /\ Called /\ lastErr = Ok /\ lastCall.box = 1
    /\ IsLookupRecord(data[LookupPDA(2)]) /\ IsConfigRecord(data[ConfigPDA(2)])
    /\ updateAuthority[2] = ManagerKey
    /\ data[LookupPDA(1)] = Empty /\ data[ConfigPDA(1)] = Empty
    /\ Low(itemsValidated) = 1

\* The checker has rejected accounts whose lookup slot holds a record.
C18_WitnessRejected ==
    /\ Called /\ lastErr = "AlreadyInitialized"
    /\ IsLookupRecord(data[LookupKeyOf(lastCall, tokenTypeCount)])
    /\ Low(itemsValidated) = 1

\* C19: with the counter at 2^64 - 1 every call fails and leaves counter,
\* status, records and update authorities unchanged; a call that is valid
\* otherwise (all checks up to the comparison of the orders pass) fails with
\* NumericalOverflowError, and the counter does not wrap to 0.
C19_OverflowRejected ==
    [][itemsValidated = U64Max
         => /\ lastErr' # Ok
            /\ itemsValidated' = U64Max
            /\ UNCHANGED <<ledger, successes>>
            /\ \A i \in {ThisInput} :
                 (OrderCheckReached(i) /\ OrderMatches(i) = Ok)
                   => lastErr' = "NumericalOverflowError"]_vars

\* A valid master edition call with the counter at 2^64 - 1: the lookup was
\* written and the authority transferred inside the call, the increment
\* overflowed, and the lookup slot is empty and the owner kept.
C19_Witness ==
    /\ itemsValidated = U64Max
    /\ Called /\ lastCall.type = FractionMasterEditionV2 /\ lastCall.faults = {}
    /\ lastErr = "NumericalOverflowError"
    /\ lastWrites = BranchWrites
    /\ data[LookupPDA(lastCall.box)] = Empty
    /\ data[ConfigPDA(lastCall.box)] = Empty
    /\ updateAuthority[lastCall.box] = OwnerWallet

\* Box b has been validated as a master edition.
EditionValidated(b) ==
    /\ b \in Processed
    /\ IsConfigRecord(data[ConfigPDA(b)])
    /\ data[ConfigPDA(b)].type = FractionMasterEditionV2

\* C20: in every reachable state there is a lookup record for (vault, asset)
\* exactly when the box that holds the asset has been validated as a master
\* edition, lookup records are at no other address, and the update authority of
\* every asset with a lookup record is the manager's address.
C20_LookupIffEditionValidated ==
    /\ \A b \in Boxes : IsLookupRecord(data[LookupPDA(b)]) <=> EditionValidated(b)
    /\ \A b \in Boxes : data[LookupPDA(b)] \in {Empty} \cup
                            {[key |-> OriginalAuthorityLookupV1, original_authority |-> OwnerWallet]}
    /\ LookupRecords(data) \subseteq LookupAddrs
    /\ \A b \in Boxes :
         updateAuthority[b] = IF IsLookupRecord(data[LookupPDA(b)])
                              THEN ManagerKey ELSE OwnerWallet

\* Of two boxes, box 1 has been validated as a master edition and box 2 as a
\* token: a lookup record and the manager as authority for asset 1 only.
C20_Witness ==
    /\ tokenTypeCount = 2
    /\ Processed = {1, 2}
    /\ EditionValidated(1) /\ ~EditionValidated(2)
    /\ IsLookupRecord(data[LookupPDA(1)]) /\ data[LookupPDA(2)] = Empty
    /\ updateAuthority[1] = ManagerKey /\ updateAuthority[2] = OwnerWallet

====
